---- MODULE Spec2Model ----
(***************************************************************************)
(* bevy_eventwork: the server core (src/src/server.rs), the client core    *)
(* (src/src/client.rs) and the TCP provider's framing loops                *)
(* (src/src/tcp.rs), as one state machine per core.                        *)
(*                                                                         *)
(* A connection is three tasks (receive, dispatch, send) around two        *)
(* unbounded channels.  The tasks are the same code on both sides, so both *)
(* cores share the per-connection variables; Spec is the server, and       *)
(* ClientSpec the client.                                                  *)
(***************************************************************************)
EXTENDS Integers, Sequences, FiniteSets, TLC

\* ------------------------------------------------------------------ bounds

\* Sockets the accept loop hands over in one run (server).
MaxConns == 1
\* Sockets the accept loop hands over in a run without incoming traffic
\* (BroadcastSpec, AcceptSpec).
MaxPeers == 2
\* Failures the listener reports in one run (AcceptSpec).
MaxErrors == 2
\* Connect attempts the application starts in one run (client).
MaxAttempts == 2
\* Packets the application sends on one connection.
MaxSends == 1
\* Packets of one peer that are queued at one time.
MaxPackets == 2
\* NetworkSettings.max_packet_length as configured for the run: exactly the
\* encoded size of the packets the peers legitimately send.
MaxPacketLength == 26

\* A socket is named by its number; the connection made of it has the same
\* number for its ConnectionId (Uuid::new_v4 is unique as well).
ConnIds == 1..(IF MaxPeers > MaxAttempts THEN MaxPeers ELSE MaxAttempts)

\* ------------------------------------------------------------------ strings

\* Message kinds (T::NAME) and serialized message bodies.  The messages are
\* numbers: "1" and "2" deserialize, "x" does not, "1234" is a body that makes
\* the packet longer than MaxPacketLength.
Kinds == {"chat", "ping"}
Payloads == {"1", "2", "x"}
\* What the application sends: serialized messages.
Sendable == {"1"}
Strings == Kinds \cup Payloads \cup {"kind", "data", "1234"}

\* The UTF-8 bytes of a string.
Chars(s) ==
    CASE s = "chat" -> <<99, 104, 97, 116>>
      [] s = "ping" -> <<112, 105, 110, 103>>
      [] s = "kind" -> <<107, 105, 110, 100>>
      [] s = "data" -> <<100, 97, 116, 97>>
      [] s = "1" -> <<49>>
      [] s = "2" -> <<50>>
      [] s = "x" -> <<120>>
      [] s = "1234" -> <<49, 50, 51, 52>>
      [] OTHER -> <<63>>

\* The string a byte sequence spells, "?" for one outside the model's strings.
FromChars(cs) ==
    IF \E s \in Strings : Chars(s) = cs
    THEN CHOOSE s \in Strings : Chars(s) = cs
    ELSE "?"

\* ------------------------------------------------------------------ codec

NetworkPacket(k, d) == [kind |-> k, data |-> d]

Quote == 34

\* serde_json::to_string(&NetworkPacket): {"kind":"<kind>","data":"<data>"}
Encode(p) ==
    <<123, Quote>> \o Chars("kind") \o <<Quote, 58, Quote>> \o Chars(p.kind)
        \o <<Quote, 44, Quote>> \o Chars("data") \o <<Quote, 58, Quote>>
        \o Chars(p.data) \o <<Quote, 125>>

HasPrefix(b, pre) == Len(b) >= Len(pre) /\ SubSeq(b, 1, Len(pre)) = pre

Drop(b, n) == SubSeq(b, n + 1, Len(b))

\* Index of the first quote of b, 0 when it has none.
FirstQuote(b) ==
    IF \E i \in 1..Len(b) : b[i] = Quote
    THEN CHOOSE i \in 1..Len(b) : b[i] = Quote /\ \A j \in 1..(i - 1) : b[j] # Quote
    ELSE 0

\* serde_json::from_slice::<NetworkPacket>: parses the object field by field.
Decode(b) ==
    LET pre == <<123, Quote>> \o Chars("kind") \o <<Quote, 58, Quote>>
        mid == <<Quote, 44, Quote>> \o Chars("data") \o <<Quote, 58, Quote>>
        post == <<Quote, 125>>
        fail == [ok |-> FALSE, kind |-> "?", data |-> "?"]
    IN  IF ~HasPrefix(b, pre) THEN fail
        ELSE LET r1 == Drop(b, Len(pre))
                 q1 == FirstQuote(r1)
             IN  IF q1 = 0 THEN fail
                 ELSE LET r2 == Drop(r1, q1 - 1)
                      IN  IF ~HasPrefix(r2, mid) THEN fail
                          ELSE LET r3 == Drop(r2, Len(mid))
                                   q2 == FirstQuote(r3)
                               IN  IF q2 = 0 \/ Drop(r3, q2 - 1) # post THEN fail
                                   ELSE [ok |-> TRUE,
                                         kind |-> FromChars(SubSeq(r1, 1, q1 - 1)),
                                         data |-> FromChars(SubSeq(r3, 1, q2 - 1))]

\* u64::to_le_bytes
RECURSIVE to_le_bytes_n(_, _)
to_le_bytes_n(v, n) ==
    IF n = 0 THEN <<>> ELSE <<v % 256>> \o to_le_bytes_n(v \div 256, n - 1)

to_le_bytes(v) == to_le_bytes_n(v, 8)

\* u64::from_le_bytes(..) as usize, on a 64-bit target (no truncation).
RECURSIVE from_le_bytes(_)
from_le_bytes(b) ==
    IF b = <<>> THEN 0 ELSE b[1] + 256 * from_le_bytes(Tail(b))

\* What send_loop puts on the wire for one packet.
Frame(p) == to_le_bytes(Len(Encode(p))) \o Encode(p)

\* The two writes send_loop makes for it: write(&len.to_le_bytes()), then
\* write_all(encoded.as_bytes()).
Written(p) == <<to_le_bytes(Len(Encode(p))), Encode(p)>>

\* ------------------------------------------------------------------ peers

\* The packets the model's peers put on the wire; the last one is longer than
\* MaxPacketLength.
WirePackets ==
    {NetworkPacket("chat", "1"), NetworkPacket("ping", "x"), NetworkPacket("chat", "1234")}

\* A length prefix above any max_packet_length of the model (2^24).
HugeHeader == <<0, 0, 0, 1, 0, 0, 0, 0>>

\* A body that is no packet.
Garbage == <<120, 120>>

\* The packets of a peer whose messages are to be told apart: two that
\* deserialize, one that does not, one of another kind.
QueuePackets ==
    {NetworkPacket("chat", "1"), NetworkPacket("chat", "2"), NetworkPacket("chat", "x"),
     NetworkPacket("ping", "x")}

Bodies == {Encode(p) : p \in WirePackets \cup QueuePackets} \cup {Garbage}

\* What one read on the socket can return: n bytes (Ok(n)), or -1 for Err.
ReadResult(n, b) == [n |-> n, bytes |-> b]

\* `read(&mut buffer[..8])`: end of stream, an error, a short read, or 8 bytes.
HeaderReads ==
    {ReadResult(0, <<>>), ReadResult(-1, <<>>), ReadResult(3, <<26, 0, 0>>)}
        \cup {ReadResult(8, to_le_bytes(Len(b))) : b \in Bodies}
        \cup {ReadResult(8, HugeHeader)}

\* `read_exact(&mut buffer[..length])`: an error (the stream ended or broke
\* before `length` bytes came), or the bytes.
BodyReads == {ReadResult(-1, <<>>)} \cup {ReadResult(Len(b), b) : b \in Bodies}

\* What the reads on a socket of Spec return: HeaderReads, and the bodies of
\* WirePackets.
PeerReads ==
    HeaderReads \cup {ReadResult(-1, <<>>), ReadResult(Len(Garbage), Garbage)}
        \cup {ReadResult(Len(Encode(p)), Encode(p)) : p \in WirePackets}

\* What the reads on a socket of QueueSpec return: end of stream, or the
\* header and the body of one of QueuePackets.
QueueReads ==
    {ReadResult(0, <<>>)}
        \cup {ReadResult(8, to_le_bytes(Len(Encode(p)))) : p \in QueuePackets}
        \cup {ReadResult(Len(Encode(p)), Encode(p)) : p \in QueuePackets}

\* ------------------------------------------------------------------ state

VARIABLES
    \* the runtime: whether dropping a task handle cancels the task (bevy's
    \* TaskPool) or detaches it (a runtime whose handles detach)
    drop_cancels,
    \* NetworkSettings::max_packet_length, the size of recv_loop's buffer
    max_packet_length,
    \* per connection (Connection, and the state of its three tasks)
    write_half,         \* the bytes send_loop has written, write by write
    recv_task,          \* "none" | "header" | "body" | "done" | "panicked" | "aborted"
    recv_length,        \* recv_loop's `length` while it reads the body, or as it
                        \* was when the loop refused it; else 0
    map_receive_task,   \* "none" | "running" | "done" | "aborted"
    send_task,          \* "none" | "running" | "done" | "aborted"
    incoming,           \* channel recv_loop -> dispatch task
    outgoing,           \* channel send_message -> send_loop
    \* both cores
    recv_message_map,   \* kind -> queue; its DOMAIN is the registered kinds
    systems,            \* the kinds whose drain system the App has been given
    ret,                \* the last API call: what it returned, what it removed; or
                        \* the last drain: its kind and the events it wrote
    \* NetworkServer
    established_connections,
    new_connections,
    disconnected_connections,
    server_handle,      \* Option<JoinHandle> of accept_loop: "none", or where the
                        \* task is: "bind" | "running" (bound, accepting) | "done"
    accepted,           \* sockets accept_loop has produced so far
    error_channel,      \* NetworkError::Listen / Accept reported by accept_loop
    server_events,      \* EventWriter<ServerNetworkEvent>: events written, per id
    \* NetworkClient
    server_connection,  \* 0 (None) or the connection held
    network_events,
    connection_events,
    connection_task,    \* 0 (None) or the connect attempt whose handle is held
    connect_tasks,      \* attempt -> "none" | "running" | "done" | "panicked" | "aborted"
    connects,           \* connect attempts started so far
    client_events       \* EventWriter<ClientNetworkEvent>: events written

connVars == <<write_half, recv_task, recv_length, map_receive_task,
              send_task, incoming, outgoing>>
serverVars == <<established_connections, new_connections, disconnected_connections,
                server_handle, accepted, error_channel, server_events>>
clientVars == <<server_connection, network_events, connection_events,
                connection_task, connect_tasks, connects, client_events>>
vars == <<drop_cancels, max_packet_length, connVars, recv_message_map, systems, ret, serverVars,
          clientVars>>

InitConn ==
    /\ drop_cancels \in BOOLEAN
    /\ write_half = [c \in ConnIds |-> <<>>]
    /\ recv_task = [c \in ConnIds |-> "none"]
    /\ recv_length = [c \in ConnIds |-> 0]
    /\ map_receive_task = [c \in ConnIds |-> "none"]
    /\ send_task = [c \in ConnIds |-> "none"]
    /\ incoming = [c \in ConnIds |-> <<>>]
    /\ outgoing = [c \in ConnIds |-> <<>>]
    /\ recv_message_map = [k \in {} |-> <<>>]
    /\ systems = {}
    /\ ret = [op |-> "new", result |-> "Ok", removed |-> {}, kind |-> "", events |-> <<>>]

\* NetworkServer::new
InitServerVars ==
    /\ established_connections = {}
    /\ new_connections = <<>>
    /\ disconnected_connections = <<>>
    /\ server_handle = "none"
    /\ accepted = 0
    /\ error_channel = <<>>
    /\ server_events = [c \in ConnIds |-> [connected |-> 0, disconnected |-> 0]]

\* NetworkClient::new
InitClientVars ==
    /\ server_connection = 0
    /\ network_events = <<>>
    /\ connection_events = <<>>
    /\ connection_task = 0
    /\ connect_tasks = [a \in ConnIds |-> "none"]
    /\ connects = 0
    /\ client_events = [connected |-> 0, disconnected |-> 0, error |-> 0]

\* NetworkSettings as the application leaves them: the default limit.
InitSettings == max_packet_length = MaxPacketLength

Init == InitSettings /\ InitConn /\ InitServerVars /\ InitClientVars

Registered == DOMAIN recv_message_map

\* ------------------------------------------------------------------ tasks

Running(t) == t \in {"header", "body", "running"}

\* JoinHandle::abort on the three tasks of every connection in S
\* (Connection::stop): a running task stops where it is.
Aborted(task, S) ==
    [c \in ConnIds |-> IF c \in S /\ Running(task[c]) THEN "aborted" ELSE task[c]]

\* A Connection dropped without stop(): what becomes of a task is the runtime's
\* choice.
Dropped(task, S) == IF drop_cancels THEN Aborted(task, S) ELSE task

\* A sender of the outgoing channel that outlives the Connection.
HeldForever(c) == TRUE

\* Whether a core still holds connection c (and with it the sender of its
\* outgoing channel).
Held(c) == c \in established_connections \/ server_connection = c

\* The packets that are queued, before or after a dispatch task.
InFlight ==
    Cardinality({<<c, i>> \in ConnIds \X (1..MaxPackets) : i <= Len(incoming[c])})
      + Cardinality({<<k, i>> \in Registered \X (1..MaxPackets) :
                        i <= Len(recv_message_map[k])})

\* The bound checked a few bytes too high.
TooLargeLoose(length) == length > max_packet_length + 8

\* `length > settings.max_packet_length`
TooLarge(length) == length > max_packet_length

\* `&mut buffer[..n]` on the buffer `vec![0; settings.max_packet_length]`:
\* whether the range is within the buffer (the slice panics when it is not).
InBounds(n) == n <= max_packet_length

\* One await of recv_loop resolving with read result `input`, as the values the
\* loop is left with.  A loop that returns has `returned` set; the task's
\* notification follows in the same poll of the future, since a send on an
\* unbounded channel never suspends.
RecvLoop(c, input) ==
    LET stay == [enabled |-> FALSE, task |-> recv_task[c], length |-> recv_length[c],
                 forward |-> <<>>, returned |-> FALSE]
        return == [stay EXCEPT !.enabled = TRUE, !.task = "done", !.length = 0,
                               !.returned = TRUE]
        panic == [stay EXCEPT !.enabled = TRUE, !.task = "panicked", !.length = 0]
    IN  IF recv_task[c] = "header" /\ input \in HeaderReads
        THEN IF ~InBounds(8) THEN panic
             ELSE IF input.n # 8 THEN return
             ELSE LET length == from_le_bytes(input.bytes)
                  IN  IF TooLarge(length)
                      THEN [return EXCEPT !.length = length]
                      ELSE [stay EXCEPT !.enabled = TRUE, !.task = "body",
                                        !.length = length]
        ELSE IF recv_task[c] = "body" /\ input \in BodyReads
        THEN IF input.n = -1 THEN return
             ELSE IF input.n # recv_length[c] THEN stay
             ELSE LET packet == Decode(input.bytes)
                  IN  IF ~packet.ok \/ ~Running(map_receive_task[c])
                      THEN return
                      ELSE IF InFlight >= MaxPackets THEN stay
                      ELSE [stay EXCEPT !.enabled = TRUE, !.task = "header",
                                        !.length = 0,
                                        !.forward = <<NetworkPacket(packet.kind, packet.data)>>]
        ELSE stay

\* The per-connection part of a receive step.
RecvApply(c, r) ==
    /\ r.enabled
    /\ recv_task' = [recv_task EXCEPT ![c] = r.task]
    /\ recv_length' = [recv_length EXCEPT ![c] = r.length]
    /\ incoming' = [incoming EXCEPT ![c] = @ \o r.forward]
    /\ UNCHANGED <<write_half, map_receive_task, send_task, outgoing>>

\* The dispatch loop pushing at the front of the queue.
DispatchedFront(c, tagged) ==
    LET packet == Head(incoming[c])
    IN  IF packet.kind \in Registered
        THEN [recv_message_map EXCEPT ![packet.kind] =
                 <<IF tagged THEN <<c, packet.data>> ELSE <<packet.data>>>> \o @]
        ELSE recv_message_map

\* One turn of the dispatch task's loop: the queues after it.  An entry is
\* <<id, data>> on the server (tagged), <<data>> on the client.
Dispatched(c, tagged) ==
    LET packet == Head(incoming[c])
    IN  IF packet.kind \in Registered
        THEN [recv_message_map EXCEPT ![packet.kind] =
                 Append(@, IF tagged THEN <<c, packet.data>> ELSE <<packet.data>>)]
        ELSE recv_message_map

\* A dispatch loop with `break` where the kind is unknown.
AfterDispatchBreaking(c) ==
    IF Head(incoming[c]).kind \in Registered THEN "running" ELSE "done"

\* Where the dispatch task is after a packet: back at `incoming_rx.recv()`,
\* whether or not the kind had an entry.
AfterDispatch(c) == "running"

MapStep(c, tagged) ==
    /\ map_receive_task[c] = "running"
    /\ IF incoming[c] # <<>>
       THEN /\ recv_message_map' = Dispatched(c, tagged)
            /\ incoming' = [incoming EXCEPT ![c] = Tail(@)]
            /\ map_receive_task' = [map_receive_task EXCEPT ![c] = AfterDispatch(c)]
       ELSE /\ ~Running(recv_task[c])
            /\ map_receive_task' = [map_receive_task EXCEPT ![c] = "done"]
            /\ UNCHANGED <<recv_message_map, incoming>>
    /\ UNCHANGED <<drop_cancels, max_packet_length,
                   systems, write_half, recv_task, recv_length, send_task,
                   outgoing, ret, serverVars, clientVars>>

\* One turn of send_loop's loop, `accepts` being the byte counts the
\* transport can accept of the 8-byte prefix.  `write(&len.to_le_bytes())`
\* returns Err and the loop breaks, or Ok(n) for the n bytes it has written, a
\* count the loop does not look at; then `write_all(encoded.as_bytes())`
\* writes the body, or fails and the loop breaks.  With an empty channel the
\* loop ends once the channel is closed.
SendStep(c, accepts) ==
    /\ send_task[c] = "running"
    /\ IF outgoing[c] # <<>>
       THEN \E n \in accepts \cup {-1}, body \in BOOLEAN :
              LET frame == Written(Head(outgoing[c]))
                  wrote == IF n = -1 THEN <<>>
                           ELSE IF body THEN <<SubSeq(frame[1], 1, n), frame[2]>>
                           ELSE <<SubSeq(frame[1], 1, n)>>
              IN  /\ outgoing' = [outgoing EXCEPT ![c] = Tail(@)]
                  /\ write_half' = [write_half EXCEPT ![c] = @ \o wrote]
                  /\ send_task' = [send_task EXCEPT ![c] =
                                      IF n # -1 /\ body THEN @ ELSE "done"]
       ELSE /\ ~Held(c)
            /\ send_task' = [send_task EXCEPT ![c] = "done"]
            /\ UNCHANGED <<write_half, outgoing>>
    /\ UNCHANGED <<drop_cancels, max_packet_length, systems, recv_task, recv_length,
                   map_receive_task, incoming, recv_message_map, ret, serverVars,
                   clientVars>>

\* ------------------------------------------------------------------ server

Result(op, result, removed) ==
    [op |-> op, result |-> result, removed |-> removed, kind |-> "", events |-> <<>>]

\* What a drain system leaves for the application: the events of its batch,
\* and nothing new when the batch has none.
Drained(k, batch) ==
    IF batch = <<>> THEN ret
    ELSE [op |-> "drain", result |-> "Ok", removed |-> {}, kind |-> k, events |-> batch]

\* The number a string of decimal digits spells.
RECURSIVE Number(_)
Number(cs) ==
    IF cs = <<>> THEN 0
    ELSE 10 * Number(SubSeq(cs, 1, Len(cs) - 1)) + (cs[Len(cs)] - 48)

\* serde_json::from_str::<T>(msg) for a message type that is a number.
from_str(msg) ==
    LET cs == Chars(msg)
    IN  IF \A i \in 1..Len(cs) : cs[i] \in 48..57
        THEN [ok |-> TRUE, inner |-> Number(cs)]
        ELSE [ok |-> FALSE, inner |-> 0]

\* The entries of a queue that deserialize, in the queue's order.
Deserializable(queue) == SelectSeq(queue, LAMBDA e : from_str(e[Len(e)]).ok)

\* AppNetworkServerMessage::listen_for_server_message, for a kind not yet
\* registered (the assertion holds).
RegisterServerMessage(k) ==
    /\ k \notin Registered
    /\ recv_message_map' = [j \in Registered \cup {k} |->
                              IF j = k THEN <<>> ELSE recv_message_map[j]]
    /\ systems' = systems \cup {k}
    /\ ret' = Result("listen_for_server_message", "Ok", {})
    /\ UNCHANGED <<drop_cancels, max_packet_length, connVars, serverVars, clientVars>>

\* listen_for_server_message for a kind that has an entry: the assertion
\* fails, and the panic ends the program.
RegisterServerMessagePanics(k) ==
    /\ k \in Registered
    /\ ret' = Result("listen_for_server_message", "panic", {})
    /\ UNCHANGED <<drop_cancels, max_packet_length,
                   systems, connVars, recv_message_map, serverVars,
                   clientVars>>

\* A stop() whose sends are awaited: the id of every connection of S sent.
StopNotifiedAwaited(S) ==
    disconnected_connections \o SelectSeq([c \in ConnIds |-> c], LAMBDA c : c \in S)

\* What stop() leaves in disconnected_connections: the futures
\* `sender.send(id)` builds are dropped unpolled, so nothing is sent.
StopNotified(S) == disconnected_connections

\* The recv_message_map stop() leaves: clear() removes the entries themselves.
StopCleared == [k \in {} |-> <<>>]

\* stop() without its `if let Some(..) = self.server_handle.take()`.
StopEffectUnguarded ==
    /\ disconnected_connections' = StopNotified(established_connections)
    /\ established_connections' = {}
    /\ recv_task' = Dropped(recv_task, established_connections)
    /\ map_receive_task' = Dropped(map_receive_task, established_connections)
    /\ send_task' = Dropped(send_task, established_connections)
    /\ recv_message_map' = StopCleared
    /\ new_connections' = <<>>

\* What NetworkServer::stop does to the server: nothing unless a handle is
\* held.  clear() drops the connections; it does not stop() them.
StopEffect ==
    IF server_handle # "none"
    THEN /\ disconnected_connections' = StopNotified(established_connections)
         /\ established_connections' = {}
         /\ recv_task' = Dropped(recv_task, established_connections)
         /\ map_receive_task' = Dropped(map_receive_task, established_connections)
         /\ send_task' = Dropped(send_task, established_connections)
         /\ recv_message_map' = StopCleared
         /\ new_connections' = <<>>
    ELSE UNCHANGED <<disconnected_connections, established_connections, recv_task,
                     map_receive_task, send_task, recv_message_map, new_connections>>

\* The connections stop() removes from the registry.
StopRemoved == IF server_handle # "none" THEN established_connections ELSE {}

\* NetworkServer::stop
Stop ==
    /\ StopEffect
    /\ server_handle' = "none"
    /\ ret' = Result("stop", "Ok", StopRemoved)
    /\ UNCHANGED <<drop_cancels, max_packet_length,
                   systems, write_half, recv_length, incoming, outgoing, accepted,
                   error_channel, server_events, clientVars>>

\* NetworkServer::listen
Listen ==
    /\ StopEffect
    /\ server_handle' = "bind"
    /\ ret' = Result("listen", "Ok", StopRemoved)
    /\ UNCHANGED <<drop_cancels, max_packet_length,
                   systems, write_half, recv_length, incoming, outgoing, accepted,
                   error_channel, server_events, clientVars>>

\* A disconnect that empties the registry.
DisconnectAll(c) ==
    /\ IF c \in established_connections
       THEN /\ established_connections' = {}
            /\ recv_task' = Aborted(recv_task, established_connections)
            /\ map_receive_task' = Aborted(map_receive_task, established_connections)
            /\ send_task' = Aborted(send_task, established_connections)
            /\ ret' = Result("disconnect", "Ok", {c})
       ELSE /\ ret' = Result("disconnect", "ConnectionNotFound", {})
            /\ UNCHANGED <<established_connections, recv_task, map_receive_task, send_task>>
    /\ UNCHANGED <<drop_cancels, max_packet_length, systems, write_half, recv_length,
                   incoming, outgoing, recv_message_map, new_connections,
                   disconnected_connections, server_handle, accepted, error_channel,
                   server_events, clientVars>>

\* NetworkServer::disconnect
Disconnect(c) ==
    /\ IF c \in established_connections
       THEN /\ established_connections' = established_connections \ {c}
            /\ recv_task' = Aborted(recv_task, {c})
            /\ map_receive_task' = Aborted(map_receive_task, {c})
            /\ send_task' = Aborted(send_task, {c})
            /\ ret' = Result("disconnect", "Ok", {c})
       ELSE /\ ret' = Result("disconnect", "ConnectionNotFound", {})
            /\ UNCHANGED <<established_connections, recv_task, map_receive_task, send_task>>
    /\ UNCHANGED <<drop_cancels, max_packet_length,
                   systems, write_half, recv_length, incoming, outgoing,
                   recv_message_map, new_connections, disconnected_connections,
                   server_handle, accepted, error_channel, server_events, clientVars>>

\* send_message with the result of try_send dropped: a closed channel goes
\* unreported.
SendResultUnchecked(c) ==
    IF c \notin established_connections THEN "ConnectionNotFound" ELSE "Ok"

\* What NetworkServer::send_message returns: try_send on the unbounded outgoing
\* channel fails only when send_loop has dropped the receiver.
SendResult(c) ==
    IF c \notin established_connections THEN "ConnectionNotFound"
    ELSE IF send_task[c] # "running" THEN "ChannelClosed"
    ELSE "Ok"

\* NetworkServer::send_message
SendMessage(c, k, d) ==
    /\ Len(outgoing[c]) + Len(write_half[c]) \div 2 < MaxSends
    /\ ret' = Result("send_message", SendResult(c), {})
    /\ outgoing' = IF SendResult(c) = "Ok"
                   THEN [outgoing EXCEPT ![c] = Append(@, NetworkPacket(k, d))]
                   ELSE outgoing
    /\ UNCHANGED <<drop_cancels, max_packet_length,
                   systems, write_half, recv_task, recv_length, map_receive_task,
                   send_task, incoming, recv_message_map, serverVars,
                   clientVars>>

\* broadcast with `?` on try_send: the loop ends at the first connection whose
\* channel is closed (the registry taken in id order).
BroadcastedUntilError(k, d) ==
    [c \in ConnIds |->
        IF /\ c \in established_connections
           /\ \A b \in established_connections : b <= c => send_task[b] = "running"
        THEN Append(outgoing[c], NetworkPacket(k, d))
        ELSE outgoing[c]]

\* The outgoing channels after broadcast: try_send on every connection of the
\* registry, a failure (closed channel) logged and passed over.
Broadcasted(k, d) ==
    [c \in ConnIds |->
        IF c \in established_connections /\ send_task[c] = "running"
        THEN Append(outgoing[c], NetworkPacket(k, d))
        ELSE outgoing[c]]

\* NetworkServer::broadcast
Broadcast(k, d) ==
    /\ \A c \in established_connections :
          Len(outgoing[c]) + Len(write_half[c]) \div 2 < MaxSends
    /\ outgoing' = Broadcasted(k, d)
    /\ ret' = Result("broadcast", "Ok", {})
    /\ UNCHANGED <<drop_cancels, max_packet_length,
                   systems, write_half, recv_task, recv_length, map_receive_task,
                   send_task, incoming, recv_message_map, serverVars, clientVars>>

\* TcpServerProvider::accept_loop: TcpListener::bind succeeds.
AcceptLoopBind ==
    /\ server_handle = "bind"
    /\ server_handle' = "running"
    /\ UNCHANGED <<drop_cancels, max_packet_length,
                   systems, connVars, recv_message_map, ret,
                   established_connections, new_connections, disconnected_connections,
                   accepted, error_channel, server_events, clientVars>>

\* accept_loop going on after a bind failure it has reported.
BindFailedRetrying == "bind"

\* Where accept_loop is after a bind failure: it has returned.
BindFailed == "done"

\* accept_loop: TcpListener::bind fails; the error is sent and the loop returns.
AcceptLoopBindFails ==
    /\ server_handle = "bind"
    /\ Len(error_channel) < MaxErrors
    /\ error_channel' = Append(error_channel, "Listen")
    /\ server_handle' = BindFailed
    /\ UNCHANGED <<drop_cancels, max_packet_length,
                   systems, connVars, recv_message_map, ret,
                   established_connections, new_connections, disconnected_connections,
                   accepted, server_events, clientVars>>

\* accept_loop accepting one peer, the limit-th at most: the socket is sent to
\* new_connections.
Accept(limit) ==
    /\ server_handle = "running"
    /\ accepted < limit
    /\ new_connections' = Append(new_connections, accepted + 1)
    /\ accepted' = accepted + 1
    /\ UNCHANGED <<drop_cancels, max_packet_length,
                   systems, connVars, recv_message_map, ret,
                   established_connections, disconnected_connections, server_handle,
                   error_channel, server_events, clientVars>>

\* TcpServerProvider::accept_loop accepting one peer.
AcceptLoop == Accept(MaxConns)

\* accept_loop accepting one of several peers.
AcceptLoopPeers == Accept(MaxPeers)

\* accept_loop: listener.accept() fails; the error is sent and the loop
\* continues.
AcceptLoopAcceptFails ==
    /\ server_handle = "running"
    /\ Len(error_channel) < MaxErrors
    /\ error_channel' = Append(error_channel, "Accept")
    /\ UNCHANGED <<drop_cancels, max_packet_length,
                   systems, connVars, recv_message_map, ret,
                   established_connections, new_connections, disconnected_connections,
                   server_handle, accepted, server_events, clientVars>>

Range(s) == {s[i] : i \in 1..Len(s)}

Count(s, x) == Cardinality({i \in 1..Len(s) : s[i] = x})

\* The task states after the tasks of the connections in S are spawned.
Spawned(task, S, state) == [c \in ConnIds |-> IF c \in S THEN state ELSE task[c]]

\* The events handle_new_incoming_connections writes: a Connected per new
\* socket, a Disconnected per id found in disconnected_connections.
ServerEventsWritten ==
    [c \in ConnIds |->
        [connected |-> server_events[c].connected
                         + (IF c \in Range(new_connections) THEN 1 ELSE 0),
         disconnected |-> server_events[c].disconnected
                            + Count(disconnected_connections, c)]]

\* handle_new_incoming_connections: both drains, in that order.
HandleNewIncomingConnections ==
    LET new == Range(new_connections)
        gone == Range(disconnected_connections)
        dropped == gone \cap (established_connections \cup new)
    IN  /\ recv_task' = Dropped(Spawned(recv_task, new, "header"), dropped)
        /\ map_receive_task' = Dropped(Spawned(map_receive_task, new, "running"), dropped)
        /\ send_task' = Dropped(Spawned(send_task, new, "running"), dropped)
        /\ new_connections' = <<>>
        /\ established_connections' = (established_connections \cup new) \ gone
        /\ disconnected_connections' = <<>>
        /\ server_events' = ServerEventsWritten
        /\ UNCHANGED <<drop_cancels, max_packet_length,
                       systems, write_half, recv_length, incoming, outgoing,
                       recv_message_map, ret, server_handle, accepted, error_channel,
                       clientVars>>

\* A receive task that ends with recv_loop and tells nobody.
NotifiedNever(c, returned) == disconnected_connections

\* `disconnected_connections.send(conn_id).await`, reached once recv_loop has
\* returned.
Notified(c, returned) ==
    IF returned THEN Append(disconnected_connections, c) ELSE disconnected_connections

\* A step of a connection's receive_task: recv_loop, then the id sent to
\* disconnected_connections once the loop has returned.
Receive(c, reads) ==
    \E input \in reads :
      LET r == RecvLoop(c, input)
      IN  /\ RecvApply(c, r)
          /\ disconnected_connections' = Notified(c, r.returned)
          /\ UNCHANGED <<drop_cancels, max_packet_length, systems, recv_message_map, ret,
                         established_connections, new_connections, server_handle,
                         accepted, error_channel, server_events, clientVars>>

ReceiveTask(c) == Receive(c, PeerReads)

\* A step of the receive_task of a connection whose peer sends QueuePackets.
QueueReceiveTask(c) == Receive(c, QueueReads)

\* A step of a connection's map_receive_task.
MapReceiveTask(c) == MapStep(c, TRUE)

\* A step of a connection's send_task.
SendTask(c) == SendStep(c, {8})

\* A drain that gives up at the first entry that does not deserialize.
ServerBatchUntilError(queue) ==
    LET bad == {i \in 1..Len(queue) : ~from_str(queue[i][2]).ok}
        n == IF bad = {} THEN Len(queue)
             ELSE (CHOOSE i \in bad : \A j \in bad : i <= j) - 1
    IN  [i \in 1..n |-> [source |-> queue[i][1], inner |-> from_str(queue[i][2]).inner]]

\* The events register_server_message writes for a queue: one
\* NetworkData { source, inner } per entry that deserializes.
ServerBatch(queue) ==
    [i \in 1..Len(Deserializable(queue)) |->
        [source |-> Deserializable(queue)[i][1],
         inner |-> from_str(Deserializable(queue)[i][2]).inner]]

\* register_server_message: the per-kind drain.  Without an entry for the
\* kind it returns at once.
RegisterServerMessageSystem(k) ==
    /\ k \in systems
    /\ IF k \in Registered
       THEN /\ recv_message_map' = [recv_message_map EXCEPT ![k] = <<>>]
            /\ ret' = Drained(k, ServerBatch(recv_message_map[k]))
       ELSE UNCHANGED <<recv_message_map, ret>>
    /\ UNCHANGED <<drop_cancels, max_packet_length,
                   systems, connVars, serverVars, clientVars>>

Next ==
    \/ \E k \in Kinds : RegisterServerMessage(k)
    \/ Listen
    \/ Stop
    \/ \E c \in ConnIds : Disconnect(c)
    \/ \E c \in ConnIds, k \in Kinds, d \in Sendable : SendMessage(c, k, d)
    \/ \E k \in Kinds, d \in Sendable : Broadcast(k, d)
    \/ AcceptLoopBind
    \/ AcceptLoop
    \/ HandleNewIncomingConnections
    \/ \E c \in ConnIds : ReceiveTask(c)
    \/ \E c \in ConnIds : MapReceiveTask(c)
    \/ \E c \in ConnIds : SendTask(c)
    \/ \E k \in Kinds : RegisterServerMessageSystem(k)

Spec == Init /\ [][Next]_vars

\* The host keeps polling, and the runtime runs a task that can run.  A receive
\* task waits on its peer, which owes nothing.
Fairness ==
    /\ WF_vars(HandleNewIncomingConnections)
    /\ \A c \in ConnIds : WF_vars(MapReceiveTask(c)) /\ WF_vars(SendTask(c))

FairSpec == Spec /\ Fairness

\* The receiving side of the server, kinds and queues: a peer that sends
\* QueuePackets, an application that registers (once or again), restarts and
\* drains.  A panic is the end.
Alive == ret.result # "panic"

QueueNext ==
    \/ Alive /\ \E k \in Kinds : RegisterServerMessage(k)
    \/ Alive /\ \E k \in Kinds : RegisterServerMessagePanics(k)
    \/ Alive /\ Listen
    \/ Alive /\ Stop
    \/ Alive /\ AcceptLoopBind
    \/ Alive /\ AcceptLoop
    \/ Alive /\ HandleNewIncomingConnections
    \/ Alive /\ \E c \in ConnIds : QueueReceiveTask(c)
    \/ Alive /\ \E c \in ConnIds : MapReceiveTask(c)
    \/ Alive /\ \E k \in Kinds : RegisterServerMessageSystem(k)

QueueSpec == Init /\ [][QueueNext]_vars

\* The sending side of a server with several connections, whose peers send
\* nothing and keep their sockets open.
BroadcastNext ==
    \/ Listen
    \/ Stop
    \/ \E c \in ConnIds : Disconnect(c)
    \/ \E c \in ConnIds, k \in Kinds, d \in Sendable : SendMessage(c, k, d)
    \/ \E k \in Kinds, d \in Sendable : Broadcast(k, d)
    \/ AcceptLoopBind
    \/ AcceptLoopPeers
    \/ HandleNewIncomingConnections
    \/ \E c \in ConnIds : SendTask(c)

BroadcastSpec == Init /\ [][BroadcastNext]_vars

\* The listening side of the server alone, with a listener that can fail to
\* bind and to accept.
AcceptNext ==
    \/ Listen
    \/ Stop
    \/ AcceptLoopBind
    \/ AcceptLoopBindFails
    \/ AcceptLoopPeers
    \/ AcceptLoopAcceptFails
    \/ HandleNewIncomingConnections

AcceptSpec == Init /\ [][AcceptNext]_vars

\* The limits an application can set: none, one below the 8 bytes of the
\* length prefix, the 8 bytes exactly, and the model's default.
BufferLengths == {0, 7, 8, MaxPacketLength}

\* NetworkServer::new with NetworkSettings of the application's choice.
BufferInit ==
    /\ max_packet_length \in BufferLengths
    /\ InitConn /\ InitServerVars /\ InitClientVars

\* The receiving side of the server under those settings.
BufferNext ==
    \/ Listen
    \/ AcceptLoopBind
    \/ AcceptLoop
    \/ HandleNewIncomingConnections
    \/ \E c \in ConnIds : ReceiveTask(c)
    \/ \E c \in ConnIds : MapReceiveTask(c)

BufferSpec == BufferInit /\ [][BufferNext]_vars

\* A step of send_task on a transport that can accept part of a buffer: 3 of
\* the prefix's 8 bytes, or all of them.
PartialSendTask(c) == SendStep(c, {3, 8})

\* The sending side of the server on such a transport.
WriteNext ==
    \/ Listen
    \/ AcceptLoopBind
    \/ AcceptLoopPeers
    \/ HandleNewIncomingConnections
    \/ \E c \in ConnIds, p \in WirePackets \cup QueuePackets : SendMessage(c, p.kind, p.data)
    \/ \E c \in ConnIds : PartialSendTask(c)

WriteSpec == Init /\ [][WriteNext]_vars

\* The server with several peers that send packets, and an application that
\* disconnects them.
DisconnectNext ==
    \/ \E k \in Kinds : RegisterServerMessage(k)
    \/ Listen
    \/ \E c \in ConnIds : Disconnect(c)
    \/ AcceptLoopBind
    \/ AcceptLoopPeers
    \/ HandleNewIncomingConnections
    \/ \E c \in ConnIds : QueueReceiveTask(c)
    \/ \E c \in ConnIds : MapReceiveTask(c)

DisconnectSpec == Init /\ [][DisconnectNext]_vars

\* ------------------------------------------------------------------ echo

\* The bytes of a sequence of writes, in the order written.
RECURSIVE Flat(_)
Flat(chunks) == IF chunks = <<>> THEN <<>> ELSE Head(chunks) \o Flat(Tail(chunks))

\* A peer that sends back, unchanged and in order, every byte it is sent: the
\* stream recv_loop reads is the stream send_loop wrote.  What recv_loop of
\* connection c has taken from it: the frames of the packets it has forwarded,
\* and the header of the one it is reading the body of.
EchoOffset(c) ==
    Len(Flat(SubSeq(write_half[c], 1, 2 * Len(incoming[c]))))
        + (IF recv_task[c] = "body" THEN 8 ELSE 0)

\* The bytes of the stream recv_loop has not taken yet.
EchoAhead(c) == Drop(Flat(write_half[c]), EchoOffset(c))

\* What the next read of connection c can return: `read(&mut buffer[..8])`
\* returns the bytes that have arrived, one at least and 8 at most;
\* `read_exact(&mut buffer[..length])` returns once `length` bytes have.
EchoReads(c) ==
    {r \in HeaderReads : /\ recv_task[c] = "header"
                         /\ r.n >= 1 /\ Len(r.bytes) = r.n
                         /\ HasPrefix(EchoAhead(c), r.bytes)}
      \cup {r \in BodyReads : /\ recv_task[c] = "body"
                              /\ r.n >= 1 /\ r.n = recv_length[c]
                              /\ HasPrefix(EchoAhead(c), r.bytes)}

\* One read of recv_loop on the stream of an echoing peer.
EchoReceiveTask(c) == Receive(c, EchoReads(c))

\* The server with one connection to an echoing peer, the packets it receives
\* left in the connection's channel.
EchoNext ==
    \/ Listen
    \/ AcceptLoopBind
    \/ AcceptLoop
    \/ HandleNewIncomingConnections
    \/ \E c \in ConnIds, p \in WirePackets \cup QueuePackets : SendMessage(c, p.kind, p.data)
    \/ \E c \in ConnIds : SendTask(c)
    \/ \E c \in ConnIds : EchoReceiveTask(c)

EchoSpec == Init /\ [][EchoNext]_vars

\* ------------------------------------------------------------------ client

\* AppNetworkClientMessage::listen_for_client_message, for a kind not yet
\* registered (the assertion holds).
RegisterClientMessage(k) ==
    /\ k \notin Registered
    /\ recv_message_map' = [j \in Registered \cup {k} |->
                              IF j = k THEN <<>> ELSE recv_message_map[j]]
    /\ systems' = systems \cup {k}
    /\ UNCHANGED <<drop_cancels, max_packet_length, connVars, ret, serverVars, clientVars>>

\* What disconnect() leaves in network_events: the future
\* `sender.send(Disconnected)` builds is dropped unpolled, so nothing is sent.
DisconnectNotified == network_events

\* The connection disconnect() removes, as a set.
DisconnectRemoved == IF server_connection # 0 THEN {server_connection} ELSE {}

\* disconnect() with the notification outside its `if let Some(conn)`: sent, and
\* sent whether or not a connection was held.
DisconnectEffectNotifying ==
    /\ server_connection' = 0
    /\ recv_task' = Aborted(recv_task, DisconnectRemoved)
    /\ map_receive_task' = Aborted(map_receive_task, DisconnectRemoved)
    /\ send_task' = Aborted(send_task, DisconnectRemoved)
    /\ network_events' = Append(network_events, "Disconnected")

\* What NetworkClient::disconnect does to the connection.
DisconnectEffect ==
    /\ server_connection' = 0
    /\ recv_task' = Aborted(recv_task, DisconnectRemoved)
    /\ map_receive_task' = Aborted(map_receive_task, DisconnectRemoved)
    /\ send_task' = Aborted(send_task, DisconnectRemoved)
    /\ network_events' = IF server_connection # 0 THEN DisconnectNotified ELSE network_events

\* NetworkClient::disconnect
ClientDisconnect ==
    /\ DisconnectEffect
    /\ ret' = Result("disconnect", "Ok", DisconnectRemoved)
    /\ UNCHANGED <<drop_cancels, max_packet_length,
                   systems, write_half, recv_length, incoming, outgoing,
                   recv_message_map, serverVars, connection_events, connection_task,
                   connect_tasks, connects, client_events>>

\* NetworkClient::connect: disconnect(), then a new connect_task whose handle
\* replaces the one held (which is dropped, not aborted).
Connect ==
    /\ connects < MaxAttempts
    /\ DisconnectEffect
    /\ connects' = connects + 1
    /\ connection_task' = connects + 1
    /\ connect_tasks' = [Dropped(connect_tasks, {connection_task})
                            EXCEPT ![connects + 1] = "running"]
    /\ ret' = Result("connect", "Ok", DisconnectRemoved)
    /\ UNCHANGED <<drop_cancels, max_packet_length,
                   systems, write_half, recv_length, incoming, outgoing,
                   recv_message_map, serverVars, connection_events, client_events>>

\* TcpClientProvider::connect_task finishing: the error sent to
\* network_events when TcpStream::connect fails; when it succeeds, the socket
\* sent to connection_events, unless peer_addr() fails on the stream (the peer
\* has reset it meanwhile) and the `expect` before the send panics.
ConnectTask(a) ==
    /\ connect_tasks[a] = "running"
    /\ \E outcome \in {"socket", "error", "panic"} :
         /\ connect_tasks' = [connect_tasks EXCEPT ![a] =
                                 IF outcome = "panic" THEN "panicked" ELSE "done"]
         /\ connection_events' = IF outcome = "socket"
                                 THEN Append(connection_events, a)
                                 ELSE connection_events
         /\ network_events' = IF outcome = "error"
                              THEN Append(network_events, "Error")
                              ELSE network_events
    /\ UNCHANGED <<drop_cancels, max_packet_length,
                   systems, connVars, recv_message_map, ret, serverVars,
                   server_connection, connection_task, connects, client_events>>

\* handle_connection_event made to wait for a socket (`recv().await` in place
\* of `try_recv()`).
HandleConnectionEventBlocking ==
    /\ connection_events # <<>>
    /\ LET new == {Head(connection_events)}
           old == DisconnectRemoved
       IN  /\ recv_task' = Spawned(Dropped(recv_task, old), new, "header")
           /\ map_receive_task' = Spawned(Dropped(map_receive_task, old), new, "running")
           /\ send_task' = Spawned(Dropped(send_task, old), new, "running")
           /\ server_connection' = Head(connection_events)
    /\ connection_events' = Tail(connection_events)
    /\ client_events' = [client_events EXCEPT !.connected = @ + 1]
    /\ UNCHANGED <<drop_cancels, max_packet_length, systems, write_half, recv_length,
                   incoming, outgoing, recv_message_map, ret, serverVars, network_events,
                   connection_task, connect_tasks, connects>>

\* handle_connection_event: `try_recv()` on connection_events; without a
\* socket it returns at once; with one, the Connection made of it replaces the
\* one held (which is dropped, not stopped) and Connected is written.
HandleConnectionEvent ==
    IF connection_events = <<>>
    THEN UNCHANGED vars
    ELSE /\ LET new == {Head(connection_events)}
                old == DisconnectRemoved
            IN  /\ recv_task' = Spawned(Dropped(recv_task, old), new, "header")
                /\ map_receive_task' =
                      Spawned(Dropped(map_receive_task, old), new, "running")
                /\ send_task' = Spawned(Dropped(send_task, old), new, "running")
                /\ server_connection' = Head(connection_events)
         /\ connection_events' = Tail(connection_events)
         /\ client_events' = [client_events EXCEPT !.connected = @ + 1]
         /\ UNCHANGED <<drop_cancels, max_packet_length, systems, write_half,
                        recv_length, incoming, outgoing, recv_message_map, ret,
                        serverVars, network_events, connection_task, connect_tasks,
                        connects>>

\* send_client_network_events: everything `try_recv()` finds in
\* network_events written as events.
SendClientNetworkEvents ==
    /\ client_events' = [client_events EXCEPT
                            !.disconnected = @ + Count(network_events, "Disconnected"),
                            !.error = @ + Count(network_events, "Error")]
    /\ network_events' = <<>>
    /\ UNCHANGED <<drop_cancels, max_packet_length, systems, connVars, recv_message_map,
                   ret, serverVars, server_connection, connection_events,
                   connection_task, connect_tasks, connects>>

\* NetworkClient::is_connected
is_connected == server_connection # 0

\* send_message with `None => return Ok(())`: an unconnected send is dropped in
\* silence.
ClientSendResultSilent ==
    IF server_connection = 0 THEN "Ok"
    ELSE IF send_task[server_connection] # "running" THEN "NotConnected"
    ELSE "Ok"

\* What NetworkClient::send_message returns.
ClientSendResult ==
    IF server_connection = 0 THEN "NotConnected"
    ELSE IF send_task[server_connection] # "running" THEN "NotConnected"
    ELSE "Ok"

\* NetworkClient::send_message
ClientSendMessage(k, d) ==
    /\ is_connected =>
          Len(outgoing[server_connection]) + Len(write_half[server_connection]) \div 2
             < MaxSends
    /\ ret' = Result("send_message", ClientSendResult, {})
    /\ outgoing' = IF is_connected /\ ClientSendResult = "Ok"
                   THEN [outgoing EXCEPT ![server_connection] = Append(@, NetworkPacket(k, d))]
                   ELSE outgoing
    /\ UNCHANGED <<drop_cancels, max_packet_length,
                   systems, write_half, recv_task, recv_length, map_receive_task,
                   send_task, incoming, recv_message_map, serverVars, clientVars>>

\* What the client's reads on the socket return: end of stream, an error, or
\* the header and the body of a packet.
ClientReads ==
    {ReadResult(0, <<>>), ReadResult(-1, <<>>),
     ReadResult(8, to_le_bytes(Len(Encode(NetworkPacket("chat", "1"))))),
     ReadResult(Len(Encode(NetworkPacket("chat", "1"))), Encode(NetworkPacket("chat", "1")))}

\* A step of the connection's receive_task: recv_loop, then Disconnected sent
\* to network_events once the loop has returned.
ClientReceiveTask(c) ==
    \E input \in ClientReads :
      LET r == RecvLoop(c, input)
      IN  /\ RecvApply(c, r)
          /\ network_events' =
                IF r.returned THEN Append(network_events, "Disconnected")
                ELSE network_events
          /\ UNCHANGED <<drop_cancels, max_packet_length,
                         systems, recv_message_map, ret, serverVars,
                         server_connection, connection_events, connection_task,
                         connect_tasks, connects, client_events>>

\* A step of the connection's map_receive_task.
ClientMapReceiveTask(c) == MapStep(c, FALSE)

\* A step of the connection's send_task.
ClientSendTask(c) == SendStep(c, {8})

\* The events register_client_message writes for a queue: one
\* NetworkData::new(ConnectionId::server(), msg) per entry that deserializes.
ClientBatch(queue) ==
    [i \in 1..Len(Deserializable(queue)) |->
        [source |-> 0, inner |-> from_str(Deserializable(queue)[i][1]).inner]]

\* register_client_message: the per-kind drain.  Without an entry for the
\* kind it returns at once.
RegisterClientMessageSystem(k) ==
    /\ k \in systems
    /\ IF k \in Registered
       THEN /\ recv_message_map' = [recv_message_map EXCEPT ![k] = <<>>]
            /\ ret' = Drained(k, ClientBatch(recv_message_map[k]))
       ELSE UNCHANGED <<recv_message_map, ret>>
    /\ UNCHANGED <<drop_cancels, max_packet_length,
                   systems, connVars, serverVars, clientVars>>

ClientNext ==
    \/ \E k \in Kinds : RegisterClientMessage(k)
    \/ Connect
    \/ ClientDisconnect
    \/ \E a \in ConnIds : ConnectTask(a)
    \/ HandleConnectionEvent
    \/ SendClientNetworkEvents
    \/ \E k \in Kinds, d \in Sendable : ClientSendMessage(k, d)
    \/ \E c \in ConnIds : ClientReceiveTask(c)
    \/ \E c \in ConnIds : ClientMapReceiveTask(c)
    \/ \E c \in ConnIds : ClientSendTask(c)
    \/ \E k \in Kinds : RegisterClientMessageSystem(k)

ClientSpec == Init /\ [][ClientNext]_vars

\* The host keeps polling, and the runtime runs a task that can run.
ClientFairness ==
    /\ WF_vars(HandleConnectionEvent)
    /\ WF_vars(SendClientNetworkEvents)
    /\ \A c \in ConnIds :
         WF_vars(ConnectTask(c)) /\ WF_vars(ClientMapReceiveTask(c))
            /\ WF_vars(ClientSendTask(c))

ClientFairSpec == ClientSpec /\ ClientFairness

\* An application with both cores.  The model has one set of connection
\* slots, so the server's steps are taken while the client has made no
\* attempt, and the client's while the server has accepted no peer.
PollNext ==
    \/ connects = 0 /\ \E k \in Kinds : RegisterServerMessage(k)
    \/ connects = 0 /\ Listen
    \/ connects = 0 /\ Stop
    \/ connects = 0 /\ AcceptLoopBind
    \/ connects = 0 /\ AcceptLoop
    \/ connects = 0 /\ HandleNewIncomingConnections
    \/ connects = 0 /\ \E c \in ConnIds : QueueReceiveTask(c)
    \/ connects = 0 /\ \E c \in ConnIds : MapReceiveTask(c)
    \/ connects = 0 /\ \E k \in Kinds : RegisterServerMessageSystem(k)
    \/ accepted = 0 /\ \E k \in Kinds : RegisterClientMessage(k)
    \/ accepted = 0 /\ Connect
    \/ accepted = 0 /\ ClientDisconnect
    \/ accepted = 0 /\ \E a \in ConnIds : ConnectTask(a)
    \/ accepted = 0 /\ HandleConnectionEvent
    \/ accepted = 0 /\ SendClientNetworkEvents
    \/ accepted = 0 /\ \E c \in ConnIds : ClientReceiveTask(c)
    \/ accepted = 0 /\ \E c \in ConnIds : ClientMapReceiveTask(c)
    \/ accepted = 0 /\ \E k \in Kinds : RegisterClientMessageSystem(k)

PollSpec == Init /\ [][PollNext]_vars

\* ------------------------------------------------------------------ claims

Live(c) ==
    Running(recv_task[c]) \/ Running(map_receive_task[c]) \/ Running(send_task[c])

\* C1: recv_loop never reads the body of, nor forwards, a packet whose declared
\* length exceeds max_packet_length: a loop that has read such a length has
\* returned, and every packet that is queued, before or after dispatch, is
\* within the limit.
C1_OversizeNeverForwarded ==
    /\ \A c \in ConnIds :
         /\ recv_length[c] > MaxPacketLength => recv_task[c] = "done"
         /\ \A i \in 1..Len(incoming[c]) :
              Len(Encode(incoming[c][i])) <= MaxPacketLength
    /\ \A k \in Registered : \A i \in 1..Len(recv_message_map[k]) :
         Len(Encode(NetworkPacket(k, recv_message_map[k][i][2]))) <= MaxPacketLength

\* A receive loop that returned on a declared length above the limit, with
\* nothing of that connection queued.
C1_Witness ==
    \E c \in ConnIds :
       /\ recv_task[c] = "done"
       /\ recv_length[c] > MaxPacketLength
       /\ incoming[c] = <<>>
       /\ \A k \in Registered : recv_message_map[k] = <<>>

\* C2: on the server, once a connection's receive loop has returned and the
\* host keeps polling, the connection is eventually out of the registry with
\* exactly one Disconnected(id) written for it; never are two written.
C2_ReturnedIsRemovedAndNotified ==
    \A c \in 1..MaxConns :
       /\ [](server_events[c].disconnected <= 1)
       /\ (recv_task[c] = "done")
            ~> (c \notin established_connections /\ server_events[c].disconnected = 1)

\* A connection whose receive loop returned, removed and notified once.
C2_Witness ==
    \E c \in 1..MaxConns :
       /\ recv_task[c] = "done"
       /\ c \notin established_connections
       /\ server_events[c].connected = 1
       /\ server_events[c].disconnected = 1

\* C3: on the client, once the receive loop of a connection has returned and
\* every notification has been polled, the client no longer holds that
\* connection (is_connected() is false).
C3_ReturnedIsNotConnected ==
    \A c \in ConnIds :
       (recv_task[c] = "done" /\ network_events = <<>>) => server_connection # c

\* C4: every connection removed by stop() or listen() eventually has exactly
\* one Disconnected written for it by a later poll.
C4_RemovedIsNotified ==
    \A c \in 1..MaxConns :
       [](ret.op \in {"stop", "listen"} /\ c \in ret.removed
             => <>(server_events[c].disconnected = 1))

\* C5: a kind once registered stays registered, whatever is called.
C5_RegistrationsPersist == [][Registered \subseteq DOMAIN recv_message_map']_vars

\* C6: the client has at most one outstanding connect attempt and at most one
\* connection with a running task.
C6_AtMostOne ==
    /\ Cardinality({a \in ConnIds : connect_tasks[a] = "running"}) <= 1
    /\ Cardinality({c \in ConnIds : Live(c)}) <= 1

\* C7: once disconnect(id) or stop() has returned, no task of a connection it
\* removed is still running.
C7_RemovedTasksAborted ==
    \A c \in ConnIds :
       (ret.op \in {"stop", "disconnect"} /\ c \in ret.removed) => ~Live(c)

\* C8: client disconnect() leaves the client unconnected, and called with no
\* connection held it changes nothing and sends no notification.
C8_DisconnectIdempotent ==
    [][ClientDisconnect =>
          /\ ~is_connected'
          /\ ~is_connected =>
                UNCHANGED <<connVars, recv_message_map, systems, clientVars>>]_vars

\* A disconnect() that found nothing, after a connection was disconnected.
C8_Witness ==
    /\ ret = Result("disconnect", "Ok", {})
    /\ ~is_connected
    /\ ~drop_cancels
    /\ \E c \in ConnIds : send_task[c] = "aborted"

\* C9: server stop() called while not listening changes neither the registry,
\* nor a registration or queue, nor a channel; called while listening it
\* leaves the registry empty, and the server not listening.
C9_StopIdempotent ==
    [][Stop =>
          /\ established_connections' = {}
          /\ server_handle' = "none"
          /\ server_handle = "none" =>
                UNCHANGED <<connVars, recv_message_map, systems, established_connections,
                            new_connections, disconnected_connections, accepted,
                            error_channel,
                            server_events>>]_vars

\* A stop() called while not listening, with a kind registered.
C9_Witness ==
    /\ ret = Result("stop", "Ok", {})
    /\ server_handle = "none"
    /\ Registered # {}

\* C10: client send_message with no connection returns NotConnected and
\* changes nothing; with a connection whose outgoing channel is open it
\* appends exactly that one packet to the channel and returns Ok.
C10_SendContract ==
    [][\A k \in Kinds, d \in Sendable :
          ClientSendMessage(k, d) =>
             /\ ~is_connected =>
                   /\ ret'.result = "NotConnected"
                   /\ UNCHANGED <<connVars, recv_message_map, systems, clientVars>>
             /\ (is_connected /\ send_task[server_connection] = "running") =>
                   /\ ret'.result = "Ok"
                   /\ outgoing' = [outgoing EXCEPT ![server_connection] =
                                      Append(@, NetworkPacket(k, d))]
                   /\ UNCHANGED <<write_half, recv_task, recv_length, map_receive_task,
                                  send_task, incoming, recv_message_map, clientVars>>]_vars

\* A send on an open connection, enqueued and answered Ok.
C10_Witness ==
    /\ ret = Result("send_message", "Ok", {})
    /\ is_connected
    /\ Len(outgoing[server_connection]) = 1

\* C11: server send_message returns ConnectionNotFound for an id that is not in
\* the registry and ChannelClosed for a connection whose send task has exited,
\* changing neither the registry nor any outgoing channel; otherwise it appends
\* exactly that one packet to the connection's outgoing channel and returns Ok.
C11_SendToContract ==
    [][\A c \in ConnIds, k \in Kinds, d \in Sendable :
          SendMessage(c, k, d) =>
             /\ UNCHANGED established_connections
             /\ c \notin established_connections =>
                   ret'.result = "ConnectionNotFound" /\ UNCHANGED outgoing
             /\ (c \in established_connections /\ send_task[c] # "running") =>
                   ret'.result = "ChannelClosed" /\ UNCHANGED outgoing
             /\ (c \in established_connections /\ send_task[c] = "running") =>
                   /\ ret'.result = "Ok"
                   /\ outgoing' = [outgoing EXCEPT ![c] = Append(@, NetworkPacket(k, d))]]_vars

\* A send answered ChannelClosed: the connection is in the registry and its
\* send task has exited.
C11_Witness ==
    /\ ret = Result("send_message", "ChannelClosed", {})
    /\ \E c \in established_connections : send_task[c] = "done" /\ outgoing[c] = <<>>

\* C12: broadcast appends exactly one copy of the message to the outgoing
\* channel of every connection of the registry whose send task is running, and
\* to no other; a connection whose send task has exited does not keep the
\* others from getting theirs, and the caller gets no error.
C12_BroadcastBestEffort ==
    [][\A k \in Kinds, d \in Sendable :
          Broadcast(k, d) =>
             /\ \A c \in ConnIds :
                  outgoing'[c] =
                     IF c \in established_connections /\ send_task[c] = "running"
                     THEN Append(outgoing[c], NetworkPacket(k, d))
                     ELSE outgoing[c]
             /\ ret'.result = "Ok"
             /\ UNCHANGED established_connections]_vars

\* A broadcast to two connections, the first with its send task gone: the
\* second has its copy.
C12_Witness ==
    /\ ret = Result("broadcast", "Ok", {})
    /\ \E a, b \in established_connections :
         /\ a < b
         /\ send_task[a] = "done" /\ outgoing[a] = <<>>
         /\ send_task[b] = "running" /\ Len(outgoing[b]) = 1

\* The payloads of the model that spell a number, and the numbers.
Numbers == {"1", "2", "1234"}

Value(d) == CASE d = "1" -> 1 [] d = "2" -> 2 [] d = "1234" -> 1234 [] OTHER -> -1

\* The places of a server queue that hold a number, and the n-th of them.
Good(q) == {i \in 1..Len(q) : q[i][2] \in Numbers}

Nth(q, n) == CHOOSE i \in Good(q) : Cardinality({m \in Good(q) : m < i}) = n - 1

\* What a drain of queue q owes the application: for each entry that holds a
\* number, in arrival order, its source and the number.
ExpectedBatch(q) ==
    [n \in 1..Cardinality(Good(q)) |->
        [source |-> q[Nth(q, n)][1], inner |-> Value(q[Nth(q, n)][2])]]

\* A step in which the drain system of kind k has drained a queue.
DrainStep(k) == RegisterServerMessageSystem(k) /\ k \in Registered

\* A step in which the dispatch task of connection c has taken a packet.
DispatchStep(c) == MapReceiveTask(c) /\ incoming[c] # <<>>

\* C13: packets keep their order of arrival.  A connection's decoded packets
\* are taken by the dispatch task in the order the receive loop put them; a
\* kind's queue grows only at its tail, by the packet the dispatch task has
\* just taken, and shrinks only by being emptied; and a drain writes the
\* messages of the queue in the queue's order.
C13_ArrivalOrder ==
    [][/\ \A c \in ConnIds :
            \/ incoming'[c] = incoming[c]
            \/ incoming[c] # <<>> /\ incoming'[c] = Tail(incoming[c])
            \/ incoming'[c] # <<>>
                 /\ incoming[c] = SubSeq(incoming'[c], 1, Len(incoming'[c]) - 1)
       /\ \A k \in Registered \cap DOMAIN recv_message_map' :
            \/ recv_message_map'[k] = recv_message_map[k]
            \/ recv_message_map'[k] = <<>>
            \/ \E c \in ConnIds :
                 /\ DispatchStep(c)
                 /\ Head(incoming[c]).kind = k
                 /\ recv_message_map'[k] =
                       Append(recv_message_map[k], <<c, Head(incoming[c]).data>>)
       /\ \A k \in Kinds :
            (DrainStep(k) /\ ExpectedBatch(recv_message_map[k]) # <<>>) =>
                ret'.events = ExpectedBatch(recv_message_map[k])]_vars

\* A drain that wrote two messages of one connection, 2 before 1.
C13_Witness ==
    /\ ret.op = "drain"
    /\ ret.kind = "chat"
    /\ Len(ret.events) = 2
    /\ ret.events[1].inner = 2 /\ ret.events[2].inner = 1

\* C14: every packet a connection of the registry has decoded, of a kind the
\* application has registered, is appended by the dispatch task to that
\* kind's queue and to no other, tagged with the connection's id; and a drain
\* takes every entry out of the queue it returns it from.
C14_DeliveredOnce ==
    [][/\ \A c \in ConnIds :
            (DispatchStep(c) /\ c \in established_connections
                /\ Head(incoming[c]).kind \in systems) =>
               /\ Head(incoming[c]).kind \in Registered
               /\ recv_message_map' =
                     [recv_message_map EXCEPT ![Head(incoming[c]).kind] =
                         Append(@, <<c, Head(incoming[c]).data>>)]
       /\ \A k \in Kinds :
            DrainStep(k) =>
               recv_message_map' = [recv_message_map EXCEPT ![k] = <<>>]]_vars

\* C15: the dispatch task taking a packet of a kind that has no entry changes
\* no queue and goes on: it is still running, with the next packet at the head
\* of its channel.
C15_UnknownKindDropped ==
    [][\A c \in ConnIds :
          (DispatchStep(c) /\ Head(incoming[c]).kind \notin Registered) =>
             /\ UNCHANGED recv_message_map
             /\ map_receive_task'[c] = "running"
             /\ incoming'[c] = Tail(incoming[c])]_vars

\* A dispatch task that has before it a packet of a kind without an entry and,
\* behind it, one of a kind that has one.
C15_Witness ==
    \E c \in ConnIds :
       /\ map_receive_task[c] = "running"
       /\ Len(incoming[c]) = 2
       /\ incoming[c][1].kind \notin Registered
       /\ incoming[c][2].kind \in Registered

\* C16: registering a kind the application has registered before fails
\* (panic) and leaves every queue as it is; registering a kind it has not
\* gives the kind an empty queue and leaves every other queue as it is.
C16_RegisterContract ==
    [][\A k \in Kinds :
          (RegisterServerMessage(k) \/ RegisterServerMessagePanics(k)) =>
             IF k \in systems
             THEN ret'.result = "panic" /\ UNCHANGED recv_message_map
             ELSE /\ ret'.result = "Ok"
                  /\ DOMAIN recv_message_map' = Registered \cup {k}
                  /\ recv_message_map'[k] = <<>>
                  /\ \A j \in Registered : recv_message_map'[j] = recv_message_map[j]]_vars

\* C17: a drain of kind k leaves k's queue empty and every other queue as it
\* is, and writes, in arrival order, the messages of all the entries that
\* deserialize: an entry that does not is passed over alone.
C17_DrainContract ==
    [][\A k \in Kinds :
          DrainStep(k) =>
             /\ recv_message_map' = [recv_message_map EXCEPT ![k] = <<>>]
             /\ IF ExpectedBatch(recv_message_map[k]) = <<>>
                THEN ret' = ret
                ELSE /\ ret'.op = "drain" /\ ret'.kind = k
                     /\ ret'.events = ExpectedBatch(recv_message_map[k])]_vars

\* A drain that wrote two messages, 1 before 2, while the other kind has a
\* queue that is not empty.
C17_Witness ==
    /\ ret.op = "drain"
    /\ ret.kind = "chat"
    /\ Len(ret.events) = 2
    /\ ret.events[1].inner = 1 /\ ret.events[2].inner = 2
    /\ "ping" \in Registered
    /\ \E c \in ConnIds : "ping" \in Registered /\ recv_task[c] # "none"

\* C18: a run of connect_task ends having sent exactly one item: the socket
\* on the new-connection channel or an error on the error channel.
C18_ExactlyOne ==
    [][\A a \in ConnIds :
          ConnectTask(a) =>
             /\ connect_tasks'[a] = "done"
             /\ \/ /\ connection_events' = Append(connection_events, a)
                   /\ network_events' = network_events
                \/ /\ network_events' = Append(network_events, "Error")
                   /\ connection_events' = connection_events]_vars

\* C19: accept_loop keeps running after every failure it reports, of bind
\* as of accept.
C19_KeepsRunning ==
    [][error_channel' # error_channel => server_handle' \in {"bind", "running"}]_vars

\* C19, amended: a bind failure is reported and ends accept_loop, which then
\* accepts and reports nothing more; an accept failure is reported and the
\* loop keeps running; each accepted peer gives one socket on new_connections.
C19_ReturnsAfterBindFailure ==
    [][/\ error_channel' = Append(error_channel, "Listen") =>
            server_handle = "bind" /\ server_handle' = "done"
       /\ error_channel' = Append(error_channel, "Accept") =>
            server_handle = "running" /\ server_handle' = "running"
       /\ server_handle = "done" =>
            /\ error_channel' = error_channel
            /\ accepted' = accepted
            /\ Len(new_connections') <= Len(new_connections)
       /\ accepted' # accepted =>
            /\ accepted' = accepted + 1
            /\ new_connections' = Append(new_connections, accepted')
            /\ server_handle' = "running"]_vars

\* An accept_loop that went on after an accept failure and accepted a peer,
\* and a later one that has returned after a bind failure.
C19_Witness ==
    /\ server_handle = "done"
    /\ error_channel = <<"Accept", "Listen">>
    /\ accepted >= 1

\* The packet whose frame is the next on the stream of connection c, when
\* send_loop has written the whole of it.
FrameWritten(c) == Len(write_half[c]) >= 2 * Len(incoming[c]) + 2

NextPacket(c) ==
    CHOOSE p \in WirePackets \cup QueuePackets :
        Encode(p) = write_half[c][2 * Len(incoming[c]) + 2]

\* C20: framing round-trips.  When send_loop has written the frame of a packet
\* whose body is no longer than max_packet_length, a read of recv_loop on
\* that stream takes the 8-byte header and knows the body's length, and the
\* next one takes the body and forwards a packet with the kind and the data
\* of the one sent.
C20_RoundTrip ==
    [][\A c \in ConnIds :
          (/\ EchoReceiveTask(c)
           /\ FrameWritten(c)
           /\ Len(Encode(NextPacket(c))) <= MaxPacketLength) =>
             IF recv_task[c] = "header"
             THEN /\ recv_task'[c] = "body"
                  /\ recv_length'[c] = Len(Encode(NextPacket(c)))
             ELSE /\ recv_task'[c] = "header"
                  /\ incoming'[c] = Append(incoming[c], NextPacket(c))]_vars

\* C21: recv_loop never panics, whatever max_packet_length is and whatever
\* the peer sends: it ends by returning.
C21_NeverPanics ==
    \A c \in ConnIds : recv_task[c] # "panicked"

\* C22: for every packet send_loop takes from the outgoing channel, it stops
\* on a write error or the wire has got the 8 bytes of the little-endian body
\* length followed by the body; a body is never written behind a part of the
\* prefix.
C22_WholeFrames ==
    [][\A c \in ConnIds :
          (outgoing[c] # <<>> /\ outgoing'[c] = Tail(outgoing[c])
              /\ send_task[c] = "running") =>
             /\ \/ send_task'[c] = "done"
                \/ write_half'[c] = write_half[c] \o Written(Head(outgoing[c]))
             /\ Len(write_half'[c]) = Len(write_half[c]) + 2 =>
                   write_half'[c][Len(write_half[c]) + 1] =
                      to_le_bytes(Len(write_half'[c][Len(write_half[c]) + 2]))]_vars

\* C23: disconnect(id) of a connection of the registry removes that id and
\* stops that connection's tasks, and leaves the other connections, their
\* tasks and channels, and every kind's queue as they are; for an id that is
\* not in the registry it returns ConnectionNotFound and changes nothing, as
\* does a disconnect(id) that follows a disconnect(id).
C23_DisconnectContract ==
    [][\A c \in ConnIds :
          Disconnect(c) =>
             /\ UNCHANGED <<recv_message_map, incoming, outgoing, write_half,
                            new_connections, disconnected_connections, server_events>>
             /\ IF c \in established_connections
                THEN /\ ret' = Result("disconnect", "Ok", {c})
                     /\ established_connections' = established_connections \ {c}
                     /\ \A d \in ConnIds \ {c} :
                          /\ recv_task'[d] = recv_task[d]
                          /\ map_receive_task'[d] = map_receive_task[d]
                          /\ send_task'[d] = send_task[d]
                ELSE /\ ret'.result = "ConnectionNotFound"
                     /\ UNCHANGED <<established_connections, recv_task,
                                    map_receive_task, send_task>>
             /\ ret = Result("disconnect", "Ok", {c}) =>
                   ret'.result = "ConnectionNotFound"]_vars

\* A disconnect that has removed one of two connections, with a queue that
\* holds a packet of each and the other connection's receive task at work.
C23_Witness ==
    \E c \in ConnIds, d \in ConnIds, k \in Registered :
       /\ c # d
       /\ ret = Result("disconnect", "Ok", {c})
       /\ d \in established_connections
       /\ Running(recv_task[d])
       /\ Len(recv_message_map[k]) = 2
       /\ recv_message_map[k][1][1] = c /\ recv_message_map[k][2][1] = d

\* Every channel the host's polls read, and every queue, is empty.
NothingToPoll ==
    /\ new_connections = <<>> /\ disconnected_connections = <<>>
    /\ connection_events = <<>> /\ network_events = <<>>
    /\ \A k \in Registered : recv_message_map[k] = <<>>

\* A step of one of the host's polls; the drains are the server's while the
\* client has made no attempt and the client's while the server has no peer.
PollStep ==
    \/ HandleNewIncomingConnections
    \/ HandleConnectionEvent
    \/ SendClientNetworkEvents
    \/ connects = 0 /\ \E k \in Kinds : RegisterServerMessageSystem(k)
    \/ accepted = 0 /\ \E k \in Kinds : RegisterClientMessageSystem(k)

\* C24: a poll of the host never waits: each can complete in every state, with
\* what is there; and with every channel and queue empty a poll changes
\* nothing.
C24_PollsNeverWait ==
    /\ [](/\ ENABLED HandleNewIncomingConnections
          /\ ENABLED HandleConnectionEvent
          /\ ENABLED SendClientNetworkEvents
          /\ \A k \in systems :
               /\ connects = 0 => ENABLED RegisterServerMessageSystem(k)
               /\ accepted = 0 => ENABLED RegisterClientMessageSystem(k))
    /\ [][(PollStep /\ NothingToPoll) => UNCHANGED vars]_vars

\* A connection made and a kind registered, a drain done, and nothing left
\* for a poll to take.
C24_Witness ==
    /\ NothingToPoll
    /\ ret.op = "drain"
    /\ Registered # {}
    /\ \E c \in ConnIds : Running(recv_task[c])

\* C25: for every connection id, Connected(id) is written exactly once, when
\* the connection is made, and before any Disconnected(id); and at most one
\* Disconnected(id) is ever written.
C25_EventsOncePerId ==
    /\ [](\A c \in ConnIds :
            /\ server_events[c].connected = (IF recv_task[c] # "none" THEN 1 ELSE 0)
            /\ server_events[c].disconnected <= 1
            /\ server_events[c].disconnected = 1 => server_events[c].connected = 1)
    /\ [][\A c \in ConnIds :
            server_events'[c].connected # server_events[c].connected =>
               /\ server_events[c].connected = 0 /\ server_events'[c].connected = 1
               /\ server_events'[c].disconnected = 0
               /\ c \in established_connections' \ established_connections]_vars

\* A connection whose peer left and that stop() then removed, with its one
\* Connected and its one Disconnected written.
C25_Witness ==
    \E c \in ConnIds :
       /\ ret = Result("stop", "Ok", {c})
       /\ server_events[c] = [connected |-> 1, disconnected |-> 1]

\* C26: while disconnect() is the last call the application has made, the
\* client is not connected and no Connected is written, whatever sockets
\* earlier connect attempts have produced or still produce.
C26_StaysDisconnected ==
    /\ [](ret.op = "disconnect" => ~is_connected)
    /\ [][(ret.op = "disconnect" /\ ret'.op = "disconnect") =>
             client_events'.connected = client_events.connected]_vars

====
